---- MODULE Spec2Model ----
(***************************************************************************)
(* Model of the midi-presets repository: the checksum calculator           *)
(* (checksum/calculator.py), the manifest generator and verifier           *)
(* (checksum/manifest.py) and the four validators (validation/*.py).       *)
(*                                                                         *)
(* A file system is a function from relative paths (sequences of segment   *)
(* names below the devices folder) to files.  A SHA-256 digest is modelled *)
(* as a free, injective constructor over the bytes that were fed to the    *)
(* hash context: two digests are equal iff the hashed byte strings are.    *)
(***************************************************************************)
EXTENDS Integers, Sequences, FiniteSets, TLC

VARIABLES
    tree,          \* the artifact tree: relative path -> [doc, readable]
    fsOrder,       \* the order in which the file system lists paths
    manifestFile,  \* content of devices/_manifest.json
    change,        \* what changed in the tree since the manifest was written
    gen,           \* outcome of the last generate_manifest call
    ver,           \* outcome of the last verify_manifest call
    digests,       \* digests returned by the calculator for the current tree
    prev,          \* file, folder and repository digests before the last edit
    val,           \* outcome of the last validate() call
    cli,           \* the ValidationCLI: its batch, loop position and counters
    chk,           \* outcome of the last verify_file_hash call
    run            \* the generate operation, step by step

vars == <<tree, fsOrder, manifestFile, change, gen, ver, digests, prev, val, cli,
          chk, run>>

(***************************************************************************)
(* Bounds of the model.                                                    *)
(***************************************************************************)
MaxFiles == 2
MaxErrors == 2
MaxBatch == 2

(***************************************************************************)
(* Names and paths.  Python compares path parts as strings, code point by  *)
(* code point; NameRank is that order on the names of the model.           *)
(***************************************************************************)
ManifestName == "_manifest.json"

NameRank(n) ==
    CASE n = "_manifest.json"  -> 1
      [] n = "a.json"          -> 2
      [] n = "b.json"          -> 3
      [] n = "dev"             -> 4
      [] n = "dev2"            -> 5
      [] n = "sub"             -> 6
      [] n = "x_manifest.json" -> 7
      [] n = "devices"         -> 8

\* fnmatch of a file name against "*.json"
MatchesJson(n) == n \in {"_manifest.json", "a.json", "b.json", "x_manifest.json"}

\* `pattern in f.name` for the pattern "_manifest.json"
ContainsManifestPattern(n) == n \in {"_manifest.json", "x_manifest.json"}

FilePaths ==
    { <<"a.json">>, <<"dev", "a.json">>, <<"dev", "b.json">>,
      <<"dev", "sub", "a.json">>, <<"dev", "x_manifest.json">>,
      <<"dev2", "a.json">> }

\* the paths of the trees whose digests are compared: a second name directly
\* in the devices folder
HashPaths == FilePaths \cup { <<"b.json">> }

\* the paths of the trees a stored manifest is verified against
VerifyPaths == { <<"a.json">>, <<"dev", "a.json">>, <<"dev", "x_manifest.json">> }

ManifestPath == <<ManifestName>>

Root == << >>

Last(s) == s[Len(s)]

IsPrefix(d, p) == Len(d) <= Len(p) /\ SubSeq(p, 1, Len(d)) = d

\* Path.relative_to
RelativeTo(p, d) == SubSeq(p, Len(d) + 1, Len(p))

\* tuple comparison of the parts of two paths (PurePath.__lt__)
RECURSIVE PathLess(_, _)
PathLess(p, q) ==
    IF p = << >> THEN q # << >>
    ELSE IF q = << >> THEN FALSE
    ELSE IF p[1] = q[1] THEN PathLess(Tail(p), Tail(q))
    ELSE NameRank(p[1]) < NameRank(q[1])

RECURSIVE Insert(_, _)
Insert(p, s) ==
    IF s = << >> THEN <<p>>
    ELSE IF PathLess(s[1], p) THEN <<s[1]>> \o Insert(p, Tail(s))
    ELSE <<p>> \o s

RECURSIVE SortedAsc(_)
SortedAsc(s) == IF s = << >> THEN << >> ELSE Insert(s[1], SortedAsc(Tail(s)))

\* a sort that was left out: the enumeration as the file system gave it
Unsorted(s) == s

\* sorted(...) of a list of paths
Sorted(s) == SortedAsc(s)

RECURSIVE SetToSeq(_)
SetToSeq(S) == IF S = {} THEN << >>
               ELSE LET x == CHOOSE x \in S : TRUE IN <<x>> \o SetToSeq(S \ {x})

Reverse(s) == [i \in 1..Len(s) |-> s[Len(s) + 1 - i]]

Range(s) == {s[i] : i \in 1..Len(s)}

(***************************************************************************)
(* The file system.                                                        *)
(***************************************************************************)
\* every path the file system can hold, the manifest file included
AllPaths == HashPaths \cup {ManifestPath}

\* listing orders the file system may use
Ascending == SortedAsc(SetToSeq(AllPaths))

ListingOrders ==
    { Ascending, Reverse(Ascending),
      SubSeq(Ascending, 3, Len(Ascending)) \o SubSeq(Ascending, 1, 2) }

\* the files that exist: those of the tree, and the manifest once written
Exists(p) == p \in DOMAIN tree \/ (p = ManifestPath /\ manifestFile.kind # "absent")

IsDir(d) == d = Root \/ \E p \in DOMAIN tree : Len(d) < Len(p) /\ IsPrefix(d, p)

\* folder.rglob("*.json"): the matching files below folder, in listing order
RglobJson(folder) ==
    SelectSeq(fsOrder, LAMBDA p : Exists(p) /\ Len(p) > Len(folder)
                                  /\ IsPrefix(folder, p) /\ MatchesJson(Last(p)))

RECURSIVE Dedup(_)
Dedup(s) == IF s = << >> THEN << >>
            ELSE LET r == Dedup(SubSeq(s, 1, Len(s) - 1))
                 IN  IF Last(s) \in Range(r) THEN r ELSE Append(r, Last(s))

\* the directories below folder at depth k, in listing order
SubDirsAt(folder, k) ==
    Dedup([i \in 1..Len(SelectSeq(fsOrder, LAMBDA p : p \in DOMAIN tree
                                       /\ Len(p) > Len(folder) + k
                                       /\ IsPrefix(folder, p)))
           |-> SubSeq(SelectSeq(fsOrder, LAMBDA p : p \in DOMAIN tree
                                       /\ Len(p) > Len(folder) + k
                                       /\ IsPrefix(folder, p))[i],
                      1, Len(folder) + k)])

\* devices_folder.iterdir() restricted to directories
IterDirs(folder) == SubDirsAt(folder, 1)

\* the directories among folder.rglob("*"): every directory below folder, and
\* never folder itself
RglobDirs(folder) == SubDirsAt(folder, 1) \o SubDirsAt(folder, 2)

(***************************************************************************)
(* Byte strings and digests.  A byte string is a sequence of symbols       *)
(* [k, n, h]: a path segment or separator (k = "seg", "sep"), the bytes of *)
(* a document (k = "doc") or the 64 hex characters of a digest (k = "sha", *)
(* h the bytes that were hashed).  hashlib's update() appends to the       *)
(* context, hexdigest() wraps the context into one "sha" symbol.           *)
(***************************************************************************)
Sym(k, n, h) == [k |-> k, n |-> n, h |-> h]

\* hashlib.sha256().hexdigest() of a context
HexDigest(ctx) == <<Sym("sha", "", ctx)>>

\* str(path): the segments joined by "/"
RECURSIVE PathStr(_)
PathStr(p) ==
    IF p = << >> THEN <<Sym("seg", ".", << >>)>>
    ELSE IF Len(p) = 1 THEN <<Sym("seg", p[1], << >>)>>
    ELSE <<Sym("seg", p[1], << >>), Sym("sep", "/", << >>)>> \o PathStr(Tail(p))

\* the bytes of a file holding document d
DocBytes(d) == <<Sym("doc", d, << >>)>>

\* a call that returned v, and a call that raised
Ok(v) == [ok |-> TRUE, v |-> v]
Raised == [ok |-> FALSE, v |-> << >>]

\* open(path) succeeds
CanRead(p) == p \in DOMAIN tree /\ tree[p].readable

(***************************************************************************)
(* ChecksumCalculator                                                      *)
(***************************************************************************)
\* calculate_file_hash: raises ValueError when the file cannot be read
CalculateFileHash(p) ==
    IF CanRead(p) THEN Ok(HexDigest(DocBytes(tree[p].doc))) ELSE Raised

\* the files calculate_folder_hash folds, after its exclude patterns
FolderJsonFiles(folder) ==
    Sorted(SelectSeq(RglobJson(folder),
                     LAMBDA p : ~ContainsManifestPattern(Last(p))))

\* the hash context after folding files[1..n]; raises at the first unreadable file
RECURSIVE FoldFiles(_, _)
FoldFiles(folder, files) ==
    IF files = << >> THEN Ok(<< >>)
    ELSE LET n    == Len(files)
             rest == FoldFiles(folder, SubSeq(files, 1, n - 1))
             fh   == CalculateFileHash(files[n])
         IN  IF ~rest.ok \/ ~fh.ok THEN Raised
             ELSE Ok(rest.v \o PathStr(RelativeTo(files[n], folder)) \o fh.v)

\* calculate_folder_hash
CalculateFolderHash(folder) ==
    LET c == FoldFiles(folder, FolderJsonFiles(folder))
    IN  IF c.ok THEN Ok(HexDigest(c.v)) ELSE Raised

\* the device folders calculate_repository_hash folds: the immediate
\* sub-directories of the devices folder that hold a *.json file at any depth
DeviceFolders == Sorted(SelectSeq(IterDirs(Root), LAMBDA d : RglobJson(d) # << >>))

RECURSIVE FoldFolders(_)
FoldFolders(folders) ==
    IF folders = << >> THEN Ok(<< >>)
    ELSE LET n    == Len(folders)
             rest == FoldFolders(SubSeq(folders, 1, n - 1))
             fh   == CalculateFolderHash(folders[n])
         IN  IF ~rest.ok \/ ~fh.ok THEN Raised
             ELSE Ok(rest.v \o PathStr(RelativeTo(folders[n], Root))
                            \o <<Sym("sep", ":", << >>)>> \o fh.v)

\* calculate_repository_hash
CalculateRepositoryHash ==
    LET c == FoldFolders(DeviceFolders)
    IN  IF c.ok THEN Ok(HexDigest(c.v)) ELSE Raised

\* verify_file_hash: False when the hash cannot be computed or differs; a stored
\* value that is not a string makes expected_hash[:16] raise before the try
VerifyFileHash(p, expected) ==
    IF expected.kind # "str" THEN Raised
    ELSE LET fh == CalculateFileHash(p)
         IN  Ok(fh.ok /\ fh.v = expected.v)

(***************************************************************************)
(* Documents.  The bytes of a file are identified by a document name; Doc  *)
(* gives what json.load returns for them and what the code reads from it.  *)
(*   json            "invalid" (not JSON), "array" or "object" (top level) *)
(*   keys            the top-level keys present                            *)
(*   metadataIsDict, deviceInfoIsDict, collectionsShapeOk                  *)
(*                   whether these values are objects (of objects)         *)
(*   schemaVersion, schemaHashable, manufacturer                           *)
(*   fieldViolations violations of field constraints the model leaves      *)
(*                   abstract (patterns, dates, lengths of other fields)   *)
(*   oversize        the file is larger than the configured limit          *)
(*   patterns        the substrings of the text, as written, that match a  *)
(*                   denylist pattern when case is ignored                 *)
(*   integrity       the kinds of data-integrity findings the presets have *)
(*   collections     the preset collections, in document order             *)
(***************************************************************************)
Preset(id, pgm, nameLen) ==
    [id |-> id, pgm |-> pgm, hasCc0 |-> FALSE, cc0 |-> 0, nameLen |-> nameLen]

Collection(name, presets) ==
    [name |-> name, presets |-> presets, parents |-> << >>,
     readonly |-> FALSE, sync |-> "synced"]

AllKeys == {"_metadata", "device_info", "preset_collections"}

ValidDoc ==
    [json |-> "object", keys |-> AllKeys,
     metadataIsDict |-> TRUE, deviceInfoIsDict |-> TRUE, collectionsShapeOk |-> TRUE,
     schemaVersion |-> "3.1.0", schemaHashable |-> TRUE, manufacturer |-> "Acme",
     fieldViolations |-> 0, oversize |-> FALSE, patterns |-> {}, integrity |-> {},
     collections |-> <<Collection("default", <<Preset("p1", 1, 11)>>)>>]

NoJsonDoc(kind) ==
    [ValidDoc EXCEPT !.json = kind, !.keys = {}, !.collections = << >>]

Doc(d) ==
    CASE d = "good1"     -> ValidDoc
      [] d = "good3"     -> [ValidDoc EXCEPT !.manufacturer = "Korg", !.collections =
                               <<Collection("factory", <<Preset("p1", 1, 11), Preset("p2", 2, 9)>>),
                                 Collection("user", <<Preset("p3", 127, 5)>>)>>]
      [] d = "badjson"   -> NoJsonDoc("invalid")
      [] d = "array"     -> NoJsonDoc("array")
      [] d = "emptyobj"  -> [ValidDoc EXCEPT !.keys = {}, !.collections = << >>]
      [] d = "listver"   -> [ValidDoc EXCEPT !.schemaHashable = FALSE, !.fieldViolations = 1]
      [] d = "longname"  -> [ValidDoc EXCEPT !.collections =
                               <<Collection("default", <<Preset("p1", 1, 60)>>)>>]
      [] d = "dupid"     -> [ValidDoc EXCEPT !.collections =
                               <<Collection("factory", <<Preset("p1", 1, 11)>>),
                                 Collection("user", <<Preset("p1", 2, 11)>>)>>]
      [] d = "pgm200"    -> [ValidDoc EXCEPT !.collections =
                               <<Collection("default", <<Preset("p1", 200, 11)>>)>>]
      [] d = "orphan"    -> [ValidDoc EXCEPT !.collections =
                               <<[Collection("default", <<Preset("p1", 1, 11)>>)
                                      EXCEPT !.parents = <<"gone">>]>>]
      [] d = "unsynced"  -> [ValidDoc EXCEPT !.collections =
                               <<[Collection("default", <<Preset("p1", 1, 11)>>)
                                      EXCEPT !.readonly = TRUE, !.sync = "modified"]>>]
      [] d = "script"    -> [ValidDoc EXCEPT !.patterns = {"<script", "eval("}]
      [] d = "badfields" -> [ValidDoc EXCEPT !.fieldViolations = 2]
      [] d = "huge"      -> [ValidDoc EXCEPT !.oversize = TRUE]
      [] d = "nometa"    -> [ValidDoc EXCEPT !.keys = {"device_info", "preset_collections"}]
      [] d = "dup2"      -> [ValidDoc EXCEPT !.collections =
                               <<[Collection("factory", <<Preset("p1", 1, 11), Preset("p2", 2, 9)>>)
                                      EXCEPT !.parents = <<"gone">>],
                                 Collection("user", <<Preset("p2", 3, 9), Preset("p1", 2, 11)>>)>>]
      [] d = "cc300"     -> [ValidDoc EXCEPT !.collections =
                               <<Collection("default",
                                    <<[Preset("p1", 1, 11) EXCEPT !.hasCc0 = TRUE, !.cc0 = 300]>>)>>]
      [] d = "notags"    -> [ValidDoc EXCEPT !.integrity = {"missing_characters", "invalid_ratings"}]
      [] d = "hugebad"   -> [NoJsonDoc("invalid") EXCEPT !.oversize = TRUE]
      [] d = "SCRIPT"    -> [ValidDoc EXCEPT !.patterns = {"<SCRIPT", "SetTimeout"}]
      [] d = "devlist"   -> [ValidDoc EXCEPT !.deviceInfoIsDict = FALSE, !.fieldViolations = 1]

\* the documents the validators are run on
DocNames == {"good1", "good3", "badjson", "array", "emptyobj", "listver",
             "longname", "dupid", "pgm200", "orphan", "unsynced", "script",
             "badfields", "huge", "nometa", "dup2", "cc300", "notags", "hugebad",
             "SCRIPT"}

\* the documents the artifact trees are built from
TreeDocs == {"good3", "badjson", "emptyobj"}

\* the documents of the trees whose digests are compared
HashDocs == {"good1", "good3"}

\* a file that cannot be opened (no permission, or a directory named *.json)
Unreadable == [doc |-> "good3", readable |-> FALSE]

FileStates(docs) == { [doc |-> d, readable |-> TRUE] : d \in docs } \cup {Unreadable}

\* the artifact trees of at most MaxFiles files at paths over documents docs
Trees(paths, docs) ==
    UNION { [P -> FileStates(docs)] :
            P \in { Q \in SUBSET paths : Cardinality(Q) <= MaxFiles } }

RECURSIVE SumSeq(_)
SumSeq(s) == IF s = << >> THEN 0 ELSE s[1] + SumSeq(Tail(s))

(***************************************************************************)
(* ManifestGenerator                                                       *)
(***************************************************************************)
StrVal(v) == [kind |-> "str", v |-> v]
NullVal == [kind |-> "null", v |-> << >>]
ErrorHash == StrVal(<<Sym("seg", "error_calculating_hash", << >>)>>)

FileInfo(sha, version, count, status) ==
    [isDict |-> TRUE, sha256 |-> sha, schema_version |-> version,
     versionHashable |-> TRUE, preset_count |-> count,
     validation_status |-> status, hasError |-> status = "failed"]

\* the record of a file whose analysis raised: the digest is still computed
\* when the file can be read
FailedInfo(p) ==
    LET fh == CalculateFileHash(p)
    IN  FileInfo(IF fh.ok THEN StrVal(fh.v) ELSE ErrorHash, "unknown", 0, "failed")

\* _analyze_file
AnalyzeFile(p) ==
    IF ~CanRead(p) THEN FailedInfo(p)
    ELSE LET doc == Doc(tree[p].doc)
             hasMeta == "_metadata" \in doc.keys
             hasColl == "preset_collections" \in doc.keys
         IN  IF doc.json # "object" THEN FailedInfo(p)
             ELSE IF hasColl /\ ~doc.collectionsShapeOk THEN FailedInfo(p)
             ELSE IF hasMeta /\ ~doc.metadataIsDict THEN FailedInfo(p)
             ELSE [FileInfo(StrVal(CalculateFileHash(p).v),
                            IF hasMeta THEN doc.schemaVersion ELSE "unknown",
                            IF hasColl
                            THEN SumSeq([i \in 1..Len(doc.collections)
                                           |-> Len(doc.collections[i].presets)])
                            ELSE 0,
                            "passed")
                   EXCEPT !.versionHashable = ~hasMeta \/ doc.schemaHashable]

Inc(f, k) == IF k \in DOMAIN f THEN [f EXCEPT ![k] = @ + 1] ELSE f @@ (k :> 1)

\* the secondary parse of _update_statistics: the manufacturer, when it can
\* be extracted
ManufacturerOf(p) ==
    IF ~CanRead(p) THEN Raised
    ELSE LET doc == Doc(tree[p].doc)
         IN  IF doc.json # "object" THEN Raised
             ELSE IF "device_info" \notin doc.keys THEN Ok("unknown")
             ELSE IF ~doc.deviceInfoIsDict THEN Raised
             ELSE Ok(doc.manufacturer)

\* statistics that are left as they were when the manufacturer cannot be
\* extracted
UpdateStatisticsAllOrNothing(stats, info, p) ==
    LET s1 == [stats EXCEPT !.validation_summary =
                   [@ EXCEPT ![info.validation_status] = @ + 1]]
        s2 == [s1 EXCEPT !.schema_version_distribution = Inc(@, info.schema_version)]
        m  == ManufacturerOf(p)
    IN  IF ~m.ok THEN stats
        ELSE IF ~info.versionHashable THEN s1
        ELSE [s2 EXCEPT !.devices_by_manufacturer = Inc(@, m.v)]

\* _update_statistics; it raises, after the validation summary was updated,
\* when the schema version cannot be a dictionary key
UpdateStatistics(stats, info, p) ==
    LET s1 == [stats EXCEPT !.validation_summary =
                   [@ EXCEPT ![info.validation_status] = @ + 1]]
        s2 == [s1 EXCEPT !.schema_version_distribution = Inc(@, info.schema_version)]
        m  == ManufacturerOf(p)
    IN  IF ~info.versionHashable THEN s1
        ELSE IF m.ok THEN [s2 EXCEPT !.devices_by_manufacturer = Inc(@, m.v)]
        ELSE s2

EmptyManifest ==
    [file_checksums |-> << >>, folder_checksums |-> << >>,
     repository_checksum |-> << >>, total_devices |-> 0, total_presets |-> 0,
     statistics |-> [devices_by_manufacturer |-> << >>,
                     schema_version_distribution |-> << >>,
                     validation_summary |-> [passed |-> 0, failed |-> 0, pending |-> 0]]]

\* the files generate_manifest analyses, in the order it visits them
ManifestJsonFiles == SelectSeq(RglobJson(Root), LAMBDA p : Last(p) # ManifestName)

\* an iteration that counts every file as a device
ProcessFileCountAll(m, p) ==
    LET info == AnalyzeFile(p)
    IN  [m EXCEPT !.file_checksums = (p :> info) @@ @,
                  !.total_devices = @ + 1,
                  !.total_presets = @ + info.preset_count,
                  !.statistics = UpdateStatistics(@, info, p)]

\* one iteration of the loop over json_files
ProcessFile(m, p) ==
    LET info == AnalyzeFile(p)
        passed == info.validation_status = "passed"
    IN  [m EXCEPT !.file_checksums = (p :> info) @@ @,
                  !.total_devices = IF passed THEN @ + 1 ELSE @,
                  !.total_presets = IF passed THEN @ + info.preset_count ELSE @,
                  !.statistics = UpdateStatistics(@, info, p)]

RECURSIVE ProcessFiles(_, _)
ProcessFiles(m, files) ==
    IF files = << >> THEN m
    ELSE ProcessFiles(ProcessFile(m, files[1]), Tail(files))

\* the key of a folder in folder_checksums
FolderKey(folder) == IF folder = Root THEN <<"devices">> ELSE folder

\* _calculate_folder_checksums: a folder whose hash raises is left out
RECURSIVE FolderChecksums(_)
FolderChecksums(folders) ==
    IF folders = << >> THEN << >>
    ELSE LET f  == folders[1]
             fh == CalculateFolderHash(f)
             rest == FolderChecksums(Tail(folders))
         IN  IF RglobJson(f) # << >> /\ fh.ok
             THEN (FolderKey(f) :> fh.v) @@ rest
             ELSE rest

\* generate_manifest: the manifest, or the exception of the repository hash
GenerateManifest ==
    LET m1 == ProcessFiles(EmptyManifest, ManifestJsonFiles)
        m2 == [m1 EXCEPT !.folder_checksums = FolderChecksums(RglobDirs(Root))]
        rh == CalculateRepositoryHash
    IN  IF rh.ok THEN Ok([m2 EXCEPT !.repository_checksum = rh.v])
        ELSE [ok |-> FALSE, v |-> EmptyManifest]

(***************************************************************************)
(* Validators.  A target is the path given to validate() with what the     *)
(* file system holds there: kind "file", "dir" or "missing", whether it    *)
(* can be opened, and the document it holds; kind "inaccessible" is a path *)
(* whose stat() fails with an error that pathlib does not take for         *)
(* absence (a name longer than the file system allows, a parent directory  *)
(* that may not be searched).  A validator's outcome is its return value   *)
(* and the entries it appended with add_error, or an exception that left   *)
(* validate().                                                             *)
(***************************************************************************)
Target(parts, kind, readable, d) ==
    [parts |-> parts, kind |-> kind, readable |-> readable, doc |-> d]

\* the file of the artifact tree at relative path p, as a validator is given it
TargetOf(p) == Target(<<"devices">> \o p, "file", tree[p].readable, tree[p].doc)

Entry(severity, source, names) ==
    [severity |-> severity, source |-> source, names |-> names]

\* add_error with the default severity
Error(source, names) == Entry("error", source, names)

Outcome(ret, entries) == [ret |-> ret, entries |-> entries, raised |-> FALSE]

\* an exception that propagates out of validate()
Raises == [ret |-> FALSE, entries |-> << >>, raised |-> TRUE]

\* Path.is_file(), Path.is_dir() and Path.exists() re-raise the OSError of
\* stat() unless it is ENOENT, ENOTDIR, EBADF or ELOOP
StatRaises(t) == t.kind = "inaccessible"

\* open(file_path) followed by f.read() succeeds
Opens(t) == t.kind = "file" /\ t.readable

\* the presets of a document, over all its collections in order
RECURSIVE Flatten(_)
Flatten(ss) == IF ss = << >> THEN << >> ELSE ss[1] \o Flatten(Tail(ss))

AllPresets(doc) ==
    Flatten([i \in 1..Len(doc.collections) |-> doc.collections[i].presets])

\* a content validation that runs the later stages after a failed one
ContentValidateAllStages(t) ==
    LET doc == Doc(t.doc)
        size == IF t.kind = "missing" THEN <<Error("size", {"missing"})>>
                ELSE IF t.kind = "file" /\ doc.oversize
                THEN <<Error("size", {"exceeds"})>> ELSE << >>
        json == IF ~Opens(t) THEN <<Error("json", {"read"})>>
                ELSE IF doc.json = "invalid" THEN <<Error("json", {"syntax"})>> ELSE << >>
        schema == IF json = << >> /\ ~({"device_info", "preset_collections"} \subseteq doc.keys)
                  THEN <<Error("schema", {"device_info", "preset_collections"} \ doc.keys)>>
                  ELSE << >>
    IN  IF StatRaises(t) THEN Raises
        ELSE Outcome(size \o json \o schema = << >>, size \o json \o schema)

\* ContentValidator.validate: size, JSON syntax and schema, stopping at the
\* first stage that fails
ContentValidate(t) ==
    LET doc == Doc(t.doc)
    IN  IF StatRaises(t) THEN Raises
        ELSE IF t.kind = "missing" THEN Outcome(FALSE, <<Error("size", {"missing"})>>)
        ELSE IF t.kind = "file" /\ doc.oversize
        THEN Outcome(FALSE, <<Error("size", {"exceeds"})>>)
        ELSE IF ~Opens(t) THEN Outcome(FALSE, <<Error("json", {"read"})>>)
        ELSE IF doc.json = "invalid" THEN Outcome(FALSE, <<Error("json", {"syntax"})>>)
        ELSE IF ~({"device_info", "preset_collections"} \subseteq doc.keys)
        THEN Outcome(FALSE, <<Error("schema",
                 {"device_info", "preset_collections"} \ doc.keys)>>)
        ELSE Outcome(TRUE, << >>)

\* the denylist of SecurityValidator
SuspiciousPatterns ==
    <<"javascript:", "<script", "eval(", "function(", "onclick=", "<iframe",
      "document.", "window.", "alert(", "confirm(", "prompt(", "setTimeout",
      "setInterval", "__import__", "exec(", "compile(", "globals(", "locals(",
      "vars(", "getattr(", "setattr(", "delattr(", "hasattr(">>

\* str.lower() of the denylist patterns and of the substrings of the texts
LowerStr(x) ==
    CASE x = "setTimeout"  -> "settimeout"
      [] x = "SetTimeout"  -> "settimeout"
      [] x = "setInterval" -> "setinterval"
      [] x = "<SCRIPT"     -> "<script"
      [] OTHER -> x

\* pattern.lower() in content.lower()
Occurs(x, doc) == LowerStr(x) \in { LowerStr(o) : o \in doc.patterns }

\* a scan that stops at the first pattern it finds
SecurityValidateFirstMatch(t) ==
    LET found == SelectSeq(SuspiciousPatterns, LAMBDA x : Occurs(x, Doc(t.doc)))
    IN  IF ~Opens(t) THEN Outcome(FALSE, <<Error("security", {"read"})>>)
        ELSE IF found # << >> THEN Outcome(FALSE, <<Error("security", {found[1]})>>)
        ELSE Outcome(TRUE, << >>)

\* SecurityValidator.validate
SecurityValidate(t) ==
    LET found == SelectSeq(SuspiciousPatterns, LAMBDA x : Occurs(x, Doc(t.doc)))
    IN  IF ~Opens(t) THEN Outcome(FALSE, <<Error("security", {"read"})>>)
        ELSE IF found # << >> THEN Outcome(FALSE, <<Error("security", Range(found))>>)
        ELSE Outcome(TRUE, << >>)

\* DeviceModel(**data) returns a record: the field constraints of the models
\* hold (pgm and cc_0 in [0,127], names of 1 to 100 characters, at least one
\* collection and one preset per collection, a known sync status)
ModelAccepts(doc) ==
    /\ doc.json = "object"
    /\ AllKeys \subseteq doc.keys
    /\ doc.metadataIsDict /\ doc.deviceInfoIsDict /\ doc.collectionsShapeOk
    /\ doc.schemaHashable
    /\ doc.fieldViolations = 0
    /\ Len(doc.collections) >= 1
    /\ \A i \in 1..Len(doc.collections) :
          /\ Len(doc.collections[i].presets) >= 1
          /\ doc.collections[i].sync \in {"synced", "modified", "conflict", "pending"}
    /\ \A i \in 1..Len(AllPresets(doc)) :
          LET q == AllPresets(doc)[i]
          IN  /\ q.pgm >= 0 /\ q.pgm <= 127
              /\ q.hasCc0 => (q.cc0 >= 0 /\ q.cc0 <= 127)
              /\ q.nameLen >= 1 /\ q.nameLen <= 100

\* _validate_preset_id_uniqueness
PresetIdUniqueness(doc) ==
    LET ps   == AllPresets(doc)
        dups == { ps[i].id : i \in { j \in 1..Len(ps) :
                                     \E k \in 1..Len(ps) : k # j /\ ps[k].id = ps[j].id } }
    IN  IF dups # {} THEN Outcome(FALSE, <<Error("uniqueness", dups)>>)
        ELSE Outcome(TRUE, << >>)

\* _validate_midi_ranges: one warning per value out of [0,127]
MidiRanges(doc) ==
    LET ps == AllPresets(doc)
        warn(i) ==
            (IF ps[i].hasCc0 /\ ~(ps[i].cc0 >= 0 /\ ps[i].cc0 <= 127)
             THEN <<Entry("warning", "midi_cc0", {ps[i].id})>> ELSE << >>)
            \o (IF ~(ps[i].pgm >= 0 /\ ps[i].pgm <= 127)
                THEN <<Entry("warning", "midi_pgm", {ps[i].id})>> ELSE << >>)
    IN  Outcome(TRUE, Flatten([i \in 1..Len(ps) |-> warn(i)]))

\* _validate_collection_consistency: every issue is added with the default
\* severity
CollectionConsistency(doc) ==
    LET cs == doc.collections
        names == { cs[i].name : i \in 1..Len(cs) }
        issues(i) ==
            [j \in 1..Len(SelectSeq(cs[i].parents, LAMBDA x : x \notin names))
               |-> Error("parent", {cs[i].name})]
            \o (IF cs[i].readonly /\ cs[i].sync # "synced"
                THEN <<Error("readonly", {cs[i].name})>> ELSE << >>)
        all == Flatten([i \in 1..Len(cs) |-> issues(i)])
    IN  Outcome(all = << >>, all)

\* _validate_naming_conventions: a name longer than 50 characters is an issue
\* that is logged and never added to the error list
NamingConventions(doc) ==
    LET ps == AllPresets(doc)
    IN  Outcome(\A i \in 1..Len(ps) : ps[i].nameLen <= 50, << >>)

\* _validate_data_integrity: tallies that are logged only
DataIntegrity(doc) == Outcome(TRUE, << >>)

\* a business validation that returns at the first rule that fails
BusinessValidateStopAtFirst(t) ==
    LET doc == Doc(t.doc)
    IN  IF ~Opens(t) THEN Outcome(FALSE, <<Error("business", {"read"})>>)
        ELSE IF ~ModelAccepts(doc) THEN Outcome(FALSE, <<Error("business", {"model"})>>)
        ELSE IF ~PresetIdUniqueness(doc).ret THEN PresetIdUniqueness(doc)
        ELSE IF ~CollectionConsistency(doc).ret
        THEN Outcome(FALSE, MidiRanges(doc).entries \o CollectionConsistency(doc).entries)
        ELSE Outcome(NamingConventions(doc).ret, MidiRanges(doc).entries)

\* BusinessRulesValidator.validate
BusinessValidate(t) ==
    LET doc == Doc(t.doc)
        rs  == <<PresetIdUniqueness(doc), MidiRanges(doc), CollectionConsistency(doc),
                 NamingConventions(doc), DataIntegrity(doc)>>
    IN  IF ~Opens(t) THEN Outcome(FALSE, <<Error("business", {"read"})>>)
        ELSE IF ~ModelAccepts(doc) THEN Outcome(FALSE, <<Error("business", {"model"})>>)
        ELSE Outcome(\A i \in 1..Len(rs) : rs[i].ret,
                     Flatten([i \in 1..Len(rs) |-> rs[i].entries]))

\* the characters of the path segments of the model
Chars(n) ==
    CASE n = "devices"  -> <<"d", "e", "v", "i", "c", "e", "s">>
      [] n = "dev"      -> <<"d", "e", "v">>
      [] n = "my-dev_1" -> <<"m", "y", "-", "d", "e", "v", "_", "1">>
      [] n = "bad name" -> <<"b", "a", "d", " ", "n", "a", "m", "e">>
      [] n = "other"    -> <<"o", "t", "h", "e", "r">>
      [] n = "dev2"     -> <<"d", "e", "v", "2">>
      [] n = "sub"      -> <<"s", "u", "b">>
      [] n = "a.json"   -> <<"a", ".", "j", "s", "o", "n">>
      [] n = "b.json"   -> <<"b", ".", "j", "s", "o", "n">>
      [] n = "x_manifest.json" ->
             <<"x", "_", "m", "a", "n", "i", "f", "e", "s", "t", ".", "j", "s", "o", "n">>
      [] n = "A.JSON"   -> <<"A", ".", "J", "S", "O", "N">>
      [] n = "a.txt"    -> <<"a", ".", "t", "x", "t">>
      [] n = "__"       -> <<"_", "_">>

\* the characters of the model for which str.isalnum() holds
Alnum == {"a", "b", "c", "d", "e", "f", "h", "i", "j", "m", "n", "o", "r", "s",
          "t", "u", "v", "x", "y", "A", "J", "N", "O", "S", "1", "2"}

Lower(c) == CASE c = "A" -> "a" [] c = "J" -> "j" [] c = "N" -> "n"
              [] c = "O" -> "o" [] c = "S" -> "s" [] OTHER -> c

\* PurePath.suffix of the last segment: from its last dot, if that is not
\* its first character
Suffix(n) ==
    LET cs   == Chars(n)
        dots == { i \in 2..Len(cs) : cs[i] = "." }
    IN  IF dots = {} THEN << >>
        ELSE SubSeq(cs, CHOOSE i \in dots : \A j \in dots : j <= i, Len(cs))

\* _is_valid_folder_name: name.replace('_','').replace('-','').isalnum()
IsValidFolderName(n) ==
    LET cs == SelectSeq(SelectSeq(Chars(n), LAMBDA c : c # "_"), LAMBDA c : c # "-")
    IN  cs # << >> /\ \A i \in 1..Len(cs) : cs[i] \in Alnum

\* StructureValidator(max_depth=4)
MaxDepth == 4

\* a path check that counts the file name as a level of depth
ValidateFilePathDeep(parts) ==
    LET folders == SubSeq(parts, 2, Len(parts) - 1)
    IN  IF Len(parts) < 2 \/ parts[1] # "devices"
        THEN Outcome(FALSE, <<Error("structure", {"devices"})>>)
        ELSE IF Len(parts) - 1 > MaxDepth
        THEN Outcome(FALSE, <<Error("structure", {"depth"})>>)
        ELSE IF \E i \in 1..Len(folders) : ~IsValidFolderName(folders[i])
        THEN Outcome(FALSE, <<Error("structure", {"name"})>>)
        ELSE IF [i \in 1..Len(Suffix(Last(parts))) |-> Lower(Suffix(Last(parts))[i])]
                # <<".", "j", "s", "o", "n">>
        THEN Outcome(FALSE, <<Error("structure", {"extension"})>>)
        ELSE Outcome(TRUE, << >>)

\* _validate_file_path
ValidateFilePath(parts) ==
    LET folders == SubSeq(parts, 2, Len(parts) - 1)
    IN  IF Len(parts) < 2 \/ parts[1] # "devices"
        THEN Outcome(FALSE, <<Error("structure", {"devices"})>>)
        ELSE IF Len(parts) - 2 > MaxDepth
        THEN Outcome(FALSE, <<Error("structure", {"depth"})>>)
        ELSE IF \E i \in 1..Len(folders) : ~IsValidFolderName(folders[i])
        THEN Outcome(FALSE, <<Error("structure", {"name"})>>)
        ELSE IF [i \in 1..Len(Suffix(Last(parts))) |-> Lower(Suffix(Last(parts))[i])]
                # <<".", "j", "s", "o", "n">>
        THEN Outcome(FALSE, <<Error("structure", {"extension"})>>)
        ELSE Outcome(TRUE, << >>)

\* _validate_folder_structure
ValidateFolderStructure(parts) ==
    IF Len(parts) < 1 \/ parts[1] # "devices"
    THEN Outcome(FALSE, <<Error("structure", {"devices"})>>)
    ELSE IF Len(parts) - 1 > MaxDepth
    THEN Outcome(FALSE, <<Error("structure", {"depth"})>>)
    ELSE IF ~IsValidFolderName(Last(parts))
    THEN Outcome(FALSE, <<Error("structure", {"name"})>>)
    ELSE Outcome(TRUE, << >>)

\* StructureValidator.validate
StructureValidate(t) ==
    IF StatRaises(t) THEN Raises
    ELSE IF t.kind = "file" THEN ValidateFilePath(t.parts)
    ELSE IF t.kind = "dir" THEN ValidateFolderStructure(t.parts)
    ELSE Outcome(FALSE, <<Error("structure", {"missing"})>>)

Validators == {"structure", "content", "security", "business"}

\* validator.validate(target), for the validator named v
RunValidator(v, t) ==
    CASE v = "structure" -> StructureValidate(t)
      [] v = "content"   -> ContentValidate(t)
      [] v = "security"  -> SecurityValidate(t)
      [] v = "business"  -> BusinessValidate(t)

\* a clear_errors that leaves the list as it is
KeepList(errors) == errors

\* BaseValidator.clear_errors: self.errors.clear()
ClearList(errors) == << >>

\* BaseValidator.get_errors and get_warnings
GetErrors(errors) == SelectSeq(errors, LAMBDA e : e.severity = "error")
GetWarnings(errors) == SelectSeq(errors, LAMBDA e : e.severity = "warning")

\* BaseValidator.has_errors
HasErrors(errors) == \E i \in 1..Len(errors) : errors[i].severity = "error"

\* BaseValidator.has_warnings
HasWarnings(errors) == \E i \in 1..Len(errors) : errors[i].severity = "warning"

\* the manifest file: absent, not JSON, a JSON array, or a JSON object m
NoManifest == [kind |-> "absent", m |-> EmptyManifest]
StoredManifest(m) == [kind |-> "object", m |-> m]

\* stored_info.get("sha256", ""), then verify_file_hash: raises for a record
\* that is not an object and for a digest that is not a string
VerifyEntry(p, info) ==
    IF ~info.isDict THEN Raised ELSE VerifyFileHash(p, info.sha256)

\* the referenced paths that are counted as missing, verified and failed
MissingFiles(fc)  == { p \in DOMAIN fc : ~Exists(p) }
VerifiedFiles(fc) == { p \in DOMAIN fc : Exists(p) /\ VerifyEntry(p, fc[p]).ok
                                         /\ VerifyEntry(p, fc[p]).v }

\* a count that books a missing file as a failed one too
FailedFilesWithMissing(fc) ==
    { p \in DOMAIN fc : ~Exists(p) \/ (VerifyEntry(p, fc[p]).ok /\ ~VerifyEntry(p, fc[p]).v) }

FailedFiles(fc)   == { p \in DOMAIN fc : Exists(p) /\ VerifyEntry(p, fc[p]).ok
                                         /\ ~VerifyEntry(p, fc[p]).v }

\* a scan for extra files that does not leave the manifest file out
ExtraFilesWithManifest(fc) == { p \in Range(RglobJson(Root)) : p \notin DOMAIN fc }

\* current_files - manifest_files
ExtraFiles(fc) == { p \in Range(ManifestJsonFiles) : p \notin DOMAIN fc }

NoVerify ==
    [done |-> FALSE, ret |-> FALSE, raised |-> FALSE, escaped |-> FALSE,
     files_verified |-> 0, files_failed |-> 0, missing_files |-> 0, extra_files |-> 0]

\* an exception of the try block that reaches the caller
UncaughtVerify == [NoVerify EXCEPT !.done = TRUE, !.raised = TRUE, !.escaped = TRUE]

\* `except Exception`: the exception of the try block is logged, and False
\* is returned
CaughtVerify == [NoVerify EXCEPT !.done = TRUE, !.raised = TRUE]

\* verify_manifest: its return value and the verification_results it logs
VerifyManifest ==
    LET fc == manifestFile.m.file_checksums
    IN  IF manifestFile.kind # "object"
        THEN IF manifestFile.kind = "absent" THEN [NoVerify EXCEPT !.done = TRUE]
             ELSE CaughtVerify
        ELSE IF \E p \in DOMAIN fc : Exists(p) /\ ~VerifyEntry(p, fc[p]).ok
        THEN CaughtVerify
        ELSE [done |-> TRUE, raised |-> FALSE, escaped |-> FALSE,
              files_verified |-> Cardinality(VerifiedFiles(fc)),
              files_failed   |-> Cardinality(FailedFiles(fc)),
              missing_files  |-> Cardinality(MissingFiles(fc)),
              extra_files    |-> Cardinality(ExtraFiles(fc)),
              ret |-> FailedFiles(fc) = {} /\ MissingFiles(fc) = {}
                      /\ ExtraFiles(fc) = {}]

(***************************************************************************)
(* State of the operations' outcomes                                       *)
(***************************************************************************)
NoChange == [kind |-> "none", path |-> << >>]
NoGen == [called |-> FALSE, ok |-> FALSE]
NoDigests == [kind |-> "none", folder |-> << >>, digest |-> Raised, order |-> << >>]
NoPrev == [kind |-> "none", path |-> << >>, to |-> << >>,
           file |-> Raised, folder |-> Raised, repo |-> Raised]
NoCli ==
    [pc |-> "idle", strict_mode |-> FALSE, batch |-> << >>, i |-> 1, j |-> 1,
     lists |-> [v \in Validators |-> << >>],
     file_valid |-> TRUE, file_errors |-> 0, file_warnings |-> 0,
     all_valid |-> TRUE, total_errors |-> 0, total_warnings |-> 0,
     calls |-> << >>, valid |-> << >>, exit |-> -1]
\* no verify_file_hash call yet
NoCheck == [called |-> FALSE, path |-> << >>, expected |-> NullVal, out |-> Raised]

\* the generate operation before it starts: the step it is at, the files it
\* enumerated and the next one to analyse, the manifest it is building, the
\* manifest file as it was when the operation started, the steps taken so
\* far, and the exit code
NoRun ==
    [pc |-> "idle", files |-> << >>, k |-> 1, manifest |-> EmptyManifest,
     before |-> NoManifest, steps |-> << >>, exit |-> -1]

NoVal == [called |-> FALSE, raised |-> FALSE, validator |-> "none",
          target |-> Target(<< >>, "missing", FALSE, "good1"),
          ret |-> FALSE, cleared |-> TRUE, errors |-> << >>]

\* the folder that contains the file p
Parent(p) == SubSeq(p, 1, Len(p) - 1)

\* the file, folder and repository digests the calculator gives for file p
Before(kind, p, q) ==
    [kind |-> kind, path |-> p, to |-> q, file |-> CalculateFileHash(p),
     folder |-> CalculateFolderHash(Parent(p)), repo |-> CalculateRepositoryHash]

(***************************************************************************)
(* Actions                                                                 *)
(***************************************************************************)
\* ChecksumCLI.generate_checksums: generate the manifest, then write it once;
\* nothing is written when generation raises
Generate ==
    LET r == GenerateManifest
    IN  /\ gen' = [called |-> TRUE, ok |-> r.ok]
        /\ manifestFile' = IF r.ok THEN StoredManifest(r.v) ELSE manifestFile
        /\ change' = IF r.ok THEN NoChange ELSE change
        /\ ver' = NoVerify
        /\ UNCHANGED <<tree, fsOrder, digests, prev, val, cli, chk, run>>

\* ChecksumCLI.verify_checksums
Verify ==
    /\ ver' = VerifyManifest
    /\ UNCHANGED <<tree, fsOrder, manifestFile, change, gen, digests, prev, val, cli, chk, run>>

\* the file system lists the same files in another order
Relist ==
    /\ \E o \in ListingOrders \ {fsOrder} : fsOrder' = o
    /\ UNCHANGED <<tree, manifestFile, change, gen, ver, digests, prev, val, cli, chk, run>>

\* one edit of the tree.  After the manifest was written (hashing = FALSE)
\* the edit is remembered in change; between two runs of the calculator
\* (hashing = TRUE) the digests before the edit are remembered in prev
Edited(kind, p, q, t, hashing) ==
    /\ tree' = t
    /\ IF hashing
       THEN /\ prev' = Before(kind, p, q)
            /\ digests' = NoDigests
            /\ UNCHANGED <<change, ver>>
       ELSE /\ manifestFile.kind = "object"
            /\ change.kind = "none"
            /\ change' = [kind |-> kind, path |-> p]
            /\ ver' = NoVerify
            /\ UNCHANGED <<prev, digests>>
    /\ UNCHANGED <<fsOrder, manifestFile, gen, val, cli, chk, run>>

Restrict(f, S) == [x \in S |-> f[x]]

DeleteFile ==
    \E p \in DOMAIN tree :
        Edited("delete", p, p, Restrict(tree, DOMAIN tree \ {p}), FALSE)

\* the bytes of a file change
ModifyFile(docs, hashing) ==
    \E p \in DOMAIN tree, d \in docs :
        /\ tree[p].readable
        /\ d # tree[p].doc
        /\ Edited("modify", p, p, [tree EXCEPT ![p].doc = d], hashing)

AddFile(docs) ==
    \E p \in FilePaths \ DOMAIN tree, f \in FileStates(docs) :
        /\ Cardinality(DOMAIN tree) < MaxFiles
        /\ Edited("add", p, p, (p :> f) @@ tree, FALSE)

\* a file gets another relative path, its content kept
RenameFile(paths, hashing) ==
    \E p \in DOMAIN tree, q \in paths \ DOMAIN tree :
        Edited("rename", p, q,
               (q :> tree[p]) @@ Restrict(tree, DOMAIN tree \ {p}), hashing)

\* calculate_folder_hash(folder), as a caller sees it
HashFolder ==
    \E f \in {Root} \cup Range(RglobDirs(Root)) :
        /\ digests' = [kind |-> "folder", folder |-> f,
                       digest |-> CalculateFolderHash(f), order |-> fsOrder]
        /\ prev' = NoPrev
        /\ UNCHANGED <<tree, fsOrder, manifestFile, change, gen, ver, val, cli, chk, run>>

\* calculate_repository_hash(devices_folder), as a caller sees it
HashRepository ==
    /\ digests' = [kind |-> "repo", folder |-> Root,
                   digest |-> CalculateRepositoryHash, order |-> fsOrder]
    /\ prev' = NoPrev
    /\ UNCHANGED <<tree, fsOrder, manifestFile, change, gen, ver, val, cli, chk, run>>

(***************************************************************************)
(* Specifications                                                          *)
(***************************************************************************)
InitOver(paths, docs, orders) ==
    /\ tree \in Trees(paths, docs)
    /\ fsOrder \in orders
    /\ manifestFile = NoManifest
    /\ change = NoChange
    /\ gen = NoGen
    /\ ver = NoVerify
    /\ digests = NoDigests
    /\ prev = NoPrev
    /\ val = NoVal
    /\ cli = NoCli
    /\ chk = NoCheck
    /\ run = NoRun

\* generation and verification of the manifest around one edit of the tree
Init == InitOver(FilePaths, TreeDocs, {Ascending, Reverse(Ascending)})

Next ==
    \/ Generate
    \/ Verify
    \/ DeleteFile
    \/ ModifyFile(TreeDocs, FALSE)
    \/ AddFile(TreeDocs)
    \/ RenameFile(FilePaths, FALSE)

Spec == Init /\ [][Next]_vars

\* the calculator's digests under relisting and edits of the tree
InitHash == InitOver(HashPaths, HashDocs, ListingOrders)

NextHash ==
    \/ HashFolder
    \/ HashRepository
    \/ Relist
    \/ ModifyFile(HashDocs, TRUE)
    \/ RenameFile(HashPaths, TRUE)

SpecHash == InitHash /\ [][NextHash]_vars

\* the targets validate() is called on: every document at a well-placed path,
\* one document at other paths, and targets that are no readable file
GoodParts == <<"devices", "dev", "a.json">>

Targets ==
    { Target(GoodParts, "file", TRUE, d) : d \in DocNames }
    \cup { Target(q, "file", TRUE, "good1") :
           q \in { <<"a.json">>, <<"other", "a.json">>, <<"devices", "a.json">>,
                   <<"devices", "my-dev_1", "a.json">>,
                   <<"devices", "bad name", "a.json">>,
                   <<"devices", "__", "a.json">>,
                   <<"devices", "dev", "a.txt">>, <<"devices", "dev", "A.JSON">>,
                   <<"devices", "dev", "sub", "dev", "sub", "a.json">>,
                   <<"devices", "dev", "sub", "dev", "sub", "dev", "a.json">> } }
    \cup { Target(q, "dir", FALSE, "good1") :
           q \in { <<"devices">>, <<"devices", "dev">>, <<"other">>,
                   <<"devices", "bad name">>,
                   <<"devices", "dev", "sub", "dev", "sub", "dev">> } }
    \cup { Target(GoodParts, "missing", FALSE, "good1"),
           Target(GoodParts, "file", FALSE, "good1"),
           Target(GoodParts, "inaccessible", FALSE, "good1") }

\* validator.validate(target): the entries are appended to the list the
\* validator holds; validate() itself does not clear it.  called says that
\* the call returned, raised that an exception left it
Validate ==
    \E t \in Targets :
        LET out == RunValidator(val.validator, t)
        IN  /\ Len(val.errors) < MaxErrors
            /\ val' = [called |-> ~out.raised, raised |-> out.raised,
                       validator |-> val.validator, target |-> t,
                       ret |-> out.ret, cleared |-> val.errors = << >>,
                       errors |-> val.errors \o out.entries]
            /\ UNCHANGED <<tree, fsOrder, manifestFile, change, gen, ver, digests, prev, cli, chk, run>>

\* validator.clear_errors()
ClearErrors ==
    /\ val.errors # << >>
    /\ val' = [val EXCEPT !.called = FALSE, !.raised = FALSE,
                          !.errors = ClearList(@), !.cleared = TRUE]
    /\ UNCHANGED <<tree, fsOrder, manifestFile, change, gen, ver, digests, prev, cli, chk, run>>

\* the manifests a stored _manifest.json can hold: not JSON, a JSON array, or
\* an object whose file_checksums reference at most MaxFiles paths, each with
\* the digest of a document, the digest placeholder, a null digest, or a
\* record that is not an object
StoredInfos(docs) ==
    { FileInfo(StrVal(HexDigest(DocBytes(d))), "3.1.0", 1, "passed") : d \in docs }
    \cup { FileInfo(ErrorHash, "unknown", 0, "failed"),
           FileInfo(NullVal, "unknown", 0, "failed"),
           [FileInfo(NullVal, "unknown", 0, "failed") EXCEPT !.isDict = FALSE] }

StoredManifests(paths, docs) ==
    { [kind |-> k, m |-> EmptyManifest] : k \in {"invalid", "array"} }
    \cup { StoredManifest([EmptyManifest EXCEPT !.file_checksums = fc]) :
           fc \in UNION { [P -> StoredInfos(docs)] :
                          P \in { Q \in SUBSET paths : Cardinality(Q) <= MaxFiles } } }

\* verification of any stored manifest against any artifact tree
InitVerify ==
    /\ tree \in Trees(VerifyPaths, HashDocs)
    /\ fsOrder \in {Ascending, Reverse(Ascending)}
    /\ manifestFile \in StoredManifests(VerifyPaths, HashDocs)
    /\ change = NoChange
    /\ gen = NoGen
    /\ ver = NoVerify
    /\ digests = NoDigests
    /\ prev = NoPrev
    /\ val = NoVal
    /\ cli = NoCli
    /\ chk = NoCheck
    /\ run = NoRun

NextVerify == Verify

SpecVerify == InitVerify /\ [][NextVerify]_vars

\* one validator instance, called on targets one after the other
InitValidate ==
    /\ tree = << >>
    /\ fsOrder = Ascending
    /\ manifestFile = NoManifest
    /\ change = NoChange
    /\ gen = NoGen
    /\ ver = NoVerify
    /\ digests = NoDigests
    /\ prev = NoPrev
    /\ \E v \in Validators : val = [NoVal EXCEPT !.validator = v]
    /\ cli = NoCli
    /\ chk = NoCheck
    /\ run = NoRun

NextValidate ==
    \/ Validate
    \/ ClearErrors

SpecValidate == InitValidate /\ [][NextValidate]_vars

(***************************************************************************)
(* The generate operation (ChecksumCLI.generate_checksums, and main() of   *)
(* scripts/generate_checksums.py), one step of generate_manifest at a time *)
(***************************************************************************)
RunPaths == { <<"a.json">>, <<"dev", "a.json">>, <<"dev", "x_manifest.json">>,
              <<"dev2", "a.json">> }

\* documents of the trees: a valid one, one whose schema_version is a JSON
\* list, one whose device_info is a JSON list, and text that is not JSON
RunDocs == {"good3", "listver", "devlist", "badjson"}

\* the manifest file an earlier run left
OldManifest ==
    StoredManifest([EmptyManifest EXCEPT
        !.file_checksums = (<<"dev", "a.json">> :>
            FileInfo(StrVal(HexDigest(DocBytes("good1"))), "3.1.0", 1, "passed")),
        !.total_devices = 1, !.total_presets = 1])

\* the steps of a generation run
StepOrder ==
    <<"Start", "EnumerateFiles", "AnalyzeEachFile", "ComputeFolderChecksums",
      "ComputeRepositoryChecksum", "Done">>

\* a manifest file that is opened for writing before the manifest is
\* generated: it is empty when generation raises
OpenThenGenerate(returned, m, old) ==
    IF returned THEN StoredManifest(m) ELSE [kind |-> "invalid", m |-> EmptyManifest]

\* the manifest file after the operation: open(manifest_path, "w") and
\* json.dump are reached only when generate_manifest has returned
WriteManifest(returned, m, old) ==
    IF returned THEN StoredManifest(m) ELSE old

\* the operation is called: generate_manifest builds the empty manifest
RunStart ==
    /\ run.pc = "idle"
    /\ run' = [NoRun EXCEPT !.pc = "Start", !.before = manifestFile,
                            !.steps = <<"Start">>]
    /\ UNCHANGED <<tree, fsOrder, manifestFile, change, gen, ver, digests, prev, val,
                   cli, chk>>

\* json_files = rglob("*.json") without _manifest.json
RunEnumerate ==
    /\ run.pc = "Start"
    /\ run' = [run EXCEPT !.pc = "EnumerateFiles", !.files = ManifestJsonFiles,
                          !.steps = Append(@, "EnumerateFiles")]
    /\ UNCHANGED <<tree, fsOrder, manifestFile, change, gen, ver, digests, prev, val,
                   cli, chk>>

\* one iteration of the loop over json_files
RunAnalyze ==
    /\ run.pc \in {"EnumerateFiles", "AnalyzeEachFile"}
    /\ run.k <= Len(run.files)
    /\ run' = [run EXCEPT !.pc = "AnalyzeEachFile",
                          !.manifest = ProcessFile(@, run.files[run.k]),
                          !.k = @ + 1,
                          !.steps = Append(@, "AnalyzeEachFile")]
    /\ UNCHANGED <<tree, fsOrder, manifestFile, change, gen, ver, digests, prev, val,
                   cli, chk>>

\* the loop is over: _calculate_folder_checksums
RunFolders ==
    /\ run.pc \in {"EnumerateFiles", "AnalyzeEachFile"}
    /\ run.k > Len(run.files)
    /\ run' = [run EXCEPT !.pc = "ComputeFolderChecksums",
                          !.manifest.folder_checksums = FolderChecksums(RglobDirs(Root)),
                          !.steps = Append(@, "ComputeFolderChecksums")]
    /\ UNCHANGED <<tree, fsOrder, manifestFile, change, gen, ver, digests, prev, val,
                   cli, chk>>

\* calculate_repository_hash, whose exception leaves generate_manifest
RunRepository ==
    /\ run.pc = "ComputeFolderChecksums"
    /\ LET rh == CalculateRepositoryHash
       IN  run' = IF rh.ok
                  THEN [run EXCEPT !.pc = "ComputeRepositoryChecksum",
                                   !.manifest.repository_checksum = rh.v,
                                   !.steps = Append(@, "ComputeRepositoryChecksum")]
                  ELSE [run EXCEPT !.pc = "raised",
                                   !.steps = Append(@, "ComputeRepositoryChecksum")]
    /\ UNCHANGED <<tree, fsOrder, manifestFile, change, gen, ver, digests, prev, val,
                   cli, chk>>

\* the totals are stored and generate_manifest returns the manifest
RunDone ==
    /\ run.pc = "ComputeRepositoryChecksum"
    /\ run' = [run EXCEPT !.pc = "Done", !.steps = Append(@, "Done")]
    /\ UNCHANGED <<tree, fsOrder, manifestFile, change, gen, ver, digests, prev, val,
                   cli, chk>>

\* the returned manifest is written to _manifest.json; exit code 0
RunWrite ==
    /\ run.pc = "Done"
    /\ manifestFile' = WriteManifest(TRUE, run.manifest, manifestFile)
    /\ run' = [run EXCEPT !.pc = "exited", !.exit = 0]
    /\ UNCHANGED <<tree, fsOrder, change, gen, ver, digests, prev, val, cli, chk>>

\* generation raised: generate_checksums returns False and run() gives 1;
\* in the script the exception ends the interpreter with status 1
RunFail ==
    /\ run.pc = "raised"
    /\ manifestFile' = WriteManifest(FALSE, run.manifest, manifestFile)
    /\ run' = [run EXCEPT !.pc = "exited", !.exit = 1]
    /\ UNCHANGED <<tree, fsOrder, change, gen, ver, digests, prev, val, cli, chk>>

InitRun ==
    /\ tree \in Trees(RunPaths, RunDocs)
    /\ fsOrder \in {Ascending, Reverse(Ascending)}
    /\ manifestFile \in {NoManifest, OldManifest}
    /\ change = NoChange
    /\ gen = NoGen
    /\ ver = NoVerify
    /\ digests = NoDigests
    /\ prev = NoPrev
    /\ val = NoVal
    /\ cli = NoCli
    /\ chk = NoCheck
    /\ run = NoRun

NextRun ==
    \/ RunStart
    \/ RunEnumerate
    \/ RunAnalyze
    \/ RunFolders
    \/ RunRepository
    \/ RunDone
    \/ RunWrite
    \/ RunFail

SpecRun == InitRun /\ [][NextRun]_vars

\* the runs whose termination is checked: trees over two paths
LivePaths == { <<"a.json">>, <<"dev", "a.json">> }

InitRunLive ==
    /\ InitRun
    /\ DOMAIN tree \subseteq LivePaths

\* the operation is a sequential program: it keeps taking its next step
SpecRunLive == InitRunLive /\ [][NextRun]_vars /\ WF_vars(NextRun)

(***************************************************************************)
(* verify_file_hash, called directly                                       *)
(***************************************************************************)
\* the values a caller passes as expected_hash: the digest of a document,
\* the digest placeholder, or a value that is not a string
ExpectedHashes ==
    { StrVal(HexDigest(DocBytes(d))) : d \in HashDocs } \cup {ErrorHash, NullVal}

\* calculator.verify_file_hash(path, expected_hash) on a path of the tree or
\* a path that does not exist
VerifyHash ==
    /\ \E p \in VerifyPaths, e \in ExpectedHashes :
          chk' = [called |-> TRUE, path |-> p, expected |-> e,
                  out |-> VerifyFileHash(p, e)]
    /\ UNCHANGED <<tree, fsOrder, manifestFile, change, gen, ver, digests, prev, val,
                   cli, run>>

InitCheck ==
    /\ tree \in Trees(VerifyPaths, HashDocs)
    /\ fsOrder = Ascending
    /\ manifestFile = NoManifest
    /\ change = NoChange
    /\ gen = NoGen
    /\ ver = NoVerify
    /\ digests = NoDigests
    /\ prev = NoPrev
    /\ val = NoVal
    /\ cli = NoCli
    /\ chk = NoCheck
    /\ run = NoRun

NextCheck == VerifyHash

SpecCheck == InitCheck /\ [][NextCheck]_vars

(***************************************************************************)
(* ValidationCLI: run() parses the arguments and calls validate_files,     *)
(* which is modelled one validator call at a time                          *)
(***************************************************************************)
\* self.validators, in the order of the list
ValidatorOrder == <<"structure", "content", "security", "business">>

\* the files a batch is made of
CliTargets ==
    { Target(GoodParts, "file", TRUE, d) :
        d \in {"good1", "script", "dup2", "pgm200", "longname", "badjson"} }
    \cup { Target(<<"other", "a.json">>, "file", TRUE, "good1"),
           Target(GoodParts, "missing", FALSE, "good1") }

Batches == UNION { [1..n -> CliTargets] : n \in 1..MaxBatch }

\* run(): --strict sets config.strict_mode, the files become the batch, and
\* validate_files starts with its counters at zero
CliRun ==
    /\ cli.pc = "idle"
    /\ \E b \in Batches, strict \in BOOLEAN :
          cli' = [NoCli EXCEPT !.pc = "clear", !.strict_mode = strict, !.batch = b,
                               !.lists = cli.lists]
    /\ UNCHANGED <<tree, fsOrder, manifestFile, change, gen, ver, digests, prev, val, chk, run>>

\* validator.clear_errors() of the validator whose turn it is
CliClear ==
    /\ cli.pc = "clear"
    /\ cli' = [cli EXCEPT !.pc = "validate",
                          !.lists[ValidatorOrder[cli.j]] = ClearList(@)]
    /\ UNCHANGED <<tree, fsOrder, manifestFile, change, gen, ver, digests, prev, val, chk, run>>

\* validator.validate(file_path), then the counting of its errors and warnings
CliValidate ==
    /\ cli.pc = "validate"
    /\ LET v    == ValidatorOrder[cli.j]
           out  == RunValidator(v, cli.batch[cli.i])
           list == cli.lists[v] \o out.entries
       IN  cli' = [cli EXCEPT
                     !.lists[v] = list,
                     !.file_valid = @ /\ out.ret,
                     !.file_errors = @ + Len(GetErrors(list)),
                     !.file_warnings = @ + Len(GetWarnings(list)),
                     !.calls = Append(@, [file |-> cli.i, validator |-> v,
                                          cleared |-> cli.lists[v] = << >>,
                                          ret |-> out.ret]),
                     !.j = IF cli.j = Len(ValidatorOrder) THEN 1 ELSE @ + 1,
                     !.pc = IF cli.j = Len(ValidatorOrder) THEN "file_end" ELSE "clear"]
    /\ UNCHANGED <<tree, fsOrder, manifestFile, change, gen, ver, digests, prev, val, chk, run>>

\* the end of the loop body for one file
CliFileEnd ==
    /\ cli.pc = "file_end"
    /\ cli' = [cli EXCEPT
                 !.total_errors = @ + cli.file_errors,
                 !.total_warnings = @ + cli.file_warnings,
                 !.all_valid = @ /\ cli.file_valid,
                 !.valid = Append(@, cli.file_valid),
                 !.file_valid = TRUE, !.file_errors = 0, !.file_warnings = 0,
                 !.i = @ + 1,
                 !.pc = IF cli.i = Len(cli.batch) THEN "return" ELSE "clear"]
    /\ UNCHANGED <<tree, fsOrder, manifestFile, change, gen, ver, digests, prev, val, chk, run>>

\* validate_files returns all_valid, and run() turns it into the exit code
CliExit ==
    /\ cli.pc = "return"
    /\ cli' = [cli EXCEPT !.pc = "exited", !.exit = IF cli.all_valid THEN 0 ELSE 1]
    /\ UNCHANGED <<tree, fsOrder, manifestFile, change, gen, ver, digests, prev, val, chk, run>>

\* the validate operation on one batch
InitCli ==
    /\ tree = << >>
    /\ fsOrder = Ascending
    /\ manifestFile = NoManifest
    /\ change = NoChange
    /\ gen = NoGen
    /\ ver = NoVerify
    /\ digests = NoDigests
    /\ prev = NoPrev
    /\ val = NoVal
    /\ cli = NoCli
    /\ chk = NoCheck
    /\ run = NoRun

NextCli ==
    \/ CliRun
    \/ CliClear
    \/ CliValidate
    \/ CliFileEnd
    \/ CliExit

SpecCli == InitCli /\ [][NextCli]_vars

(***************************************************************************)
(* C10.  Whenever validate() was called on a cleared error list, it        *)
(* returned true iff the list holds no entry of severity "error" after the *)
(* call.                                                                   *)
(***************************************************************************)
C10_ReturnIffNoError ==
    (val.called /\ val.cleared) => (val.ret <=> ~HasErrors(val.errors))

(***************************************************************************)
(* Helpers of the claims                                                   *)
(***************************************************************************)
\* every file of the tree can be opened
AllReadable == \A p \in DOMAIN tree : tree[p].readable

\* the stored manifest was generated from the tree as it is now
Fresh == manifestFile.kind = "object" /\ change.kind = "none"

\* the presets of all collections of the document at path p
PresetsAt(p) ==
    LET cs == Doc(tree[p].doc).collections
    IN  SumSeq([i \in 1..Len(cs) |-> Len(cs[i].presets)])

\* the presets of the documents at the paths S
RECURSIVE PresetsOver(_)
PresetsOver(S) ==
    IF S = {} THEN 0
    ELSE LET x == CHOOSE x \in S : TRUE IN PresetsAt(x) + PresetsOver(S \ {x})

\* the live digest of the file at p equals the digest stored for it
DigestMatches(p, info) ==
    /\ p \in DOMAIN tree /\ tree[p].readable
    /\ info.isDict /\ info.sha256 = StrVal(HexDigest(DocBytes(tree[p].doc)))

C3_OrderInvariant ==
    /\ digests.kind = "folder" => digests.digest = CalculateFolderHash(digests.folder)
    /\ digests.kind = "repo" => digests.digest = CalculateRepositoryHash

C3_Witness ==
    /\ digests.kind = "folder" /\ digests.digest.ok
    /\ digests.order # fsOrder
    /\ Len(FolderJsonFiles(digests.folder)) >= 2
    /\ RglobJson(digests.folder) # Sorted(RglobJson(digests.folder))

(***************************************************************************)
(* C4.  After the bytes of a JSON file changed (a file the folder hash     *)
(* does not exclude, all digests computable), its file digest, the digest  *)
(* of its folder and the repository digest all differ from before.         *)
(***************************************************************************)
C4_ContentSensitive ==
    (/\ prev.kind = "modify"
     /\ ~ContainsManifestPattern(Last(prev.path))
     /\ prev.file.ok /\ prev.folder.ok /\ prev.repo.ok
     /\ CalculateFolderHash(Parent(prev.path)).ok /\ CalculateRepositoryHash.ok)
    => /\ CalculateFileHash(prev.path) # prev.file
       /\ CalculateFolderHash(Parent(prev.path)) # prev.folder
       /\ CalculateRepositoryHash # prev.repo

(***************************************************************************)
(* C5.  After a file was renamed within its folder (content kept, neither  *)
(* name excluded, all digests computable), the digest of the folder and    *)
(* the repository digest differ from before.                               *)
(***************************************************************************)
C5_RenameSensitive ==
    (/\ prev.kind = "rename"
     /\ Parent(prev.path) = Parent(prev.to)
     /\ ~ContainsManifestPattern(Last(prev.path))
     /\ ~ContainsManifestPattern(Last(prev.to))
     /\ prev.folder.ok /\ prev.repo.ok
     /\ CalculateFolderHash(Parent(prev.path)).ok /\ CalculateRepositoryHash.ok)
    => /\ CalculateFolderHash(Parent(prev.path)) # prev.folder
       /\ CalculateRepositoryHash # prev.repo

(***************************************************************************)
(* C6.  Every call of generate_manifest returns a manifest; in it every    *)
(* discovered file has a record, and a file that cannot be read or parsed  *)
(* has validation_status "failed" and an error text.                       *)
(***************************************************************************)
C6_NeverAborts ==
    /\ gen.called => gen.ok
    /\ Fresh =>
          \A p \in DOMAIN tree :
              /\ p \in DOMAIN manifestFile.m.file_checksums
              /\ (~tree[p].readable \/ Doc(tree[p].doc).json = "invalid") =>
                    /\ manifestFile.m.file_checksums[p].validation_status = "failed"
                    /\ manifestFile.m.file_checksums[p].hasError

(***************************************************************************)
(* C7.  In a generated manifest a file's validation_status is "passed" iff *)
(* the Content and the Business-Rules validator both accept the file.      *)
(***************************************************************************)
C7_StatusIsValidation ==
    Fresh =>
        \A p \in DOMAIN manifestFile.m.file_checksums :
            (manifestFile.m.file_checksums[p].validation_status = "passed")
            <=> (ContentValidate(TargetOf(p)).ret /\ BusinessValidate(TargetOf(p)).ret)

(***************************************************************************)
(* C8.  In a generated manifest folder_checksums has an entry for every    *)
(* directory that holds a JSON file at any depth, the devices folder       *)
(* itself under the key "devices".                                         *)
(***************************************************************************)
C8_EveryFolderRecorded ==
    (Fresh /\ AllReadable) =>
        \A d \in {Root} \cup Range(RglobDirs(Root)) :
            (\E p \in DOMAIN tree : IsPrefix(d, p))
            => FolderKey(d) \in DOMAIN manifestFile.m.folder_checksums

(***************************************************************************)
(* C9.  In a generated manifest total_devices and validation_summary.passed*)
(* both equal the number of records with validation_status "passed", and   *)
(* total_presets is the sum of the presets of all collections of the files *)
(* of these records.                                                       *)
(***************************************************************************)
C9_Totals ==
    Fresh =>
        LET m == manifestFile.m
            passed == { p \in DOMAIN m.file_checksums :
                        m.file_checksums[p].validation_status = "passed" }
        IN  /\ m.total_devices = Cardinality(passed)
            /\ m.statistics.validation_summary.passed = Cardinality(passed)
            /\ m.total_presets = PresetsOver(passed)

C9_Witness ==
    /\ Fresh
    /\ manifestFile.m.total_devices = 1
    /\ manifestFile.m.total_presets = 3
    /\ manifestFile.m.statistics.validation_summary.failed = 1

(***************************************************************************)
(* Helpers of the claims about one validate() call                         *)
(***************************************************************************)
\* validator v was called on a cleared list, and the call is the last one
Called(v) == val.called /\ val.cleared /\ val.validator = v

\* the document of the target of the last call
ValDoc == Doc(val.target.doc)

\* the entries of the list with a given severity and source
EntriesOf(severity, source) ==
    { i \in 1..Len(val.errors) :
        val.errors[i].severity = severity /\ val.errors[i].source = source }

Warnings == { i \in 1..Len(val.errors) : val.errors[i].severity = "warning" }

\* the preset identifiers that occur more than once in a document
DuplicateIds(doc) ==
    LET ps == AllPresets(doc)
    IN  { ps[i].id : i \in { j \in 1..Len(ps) :
                             Cardinality({ k \in 1..Len(ps) : ps[k].id = ps[j].id }) > 1 } }

\* the collections that name a parent that is no collection of the document
Orphans(doc) ==
    { i \in 1..Len(doc.collections) :
        \E j \in 1..Len(doc.collections[i].parents) :
            \A k \in 1..Len(doc.collections) :
                doc.collections[k].name # doc.collections[i].parents[j] }

\* the read-only collections whose sync status is not "synced"
Unsynced(doc) ==
    { i \in 1..Len(doc.collections) :
        doc.collections[i].readonly /\ doc.collections[i].sync # "synced" }

\* the pgm and cc_0 values of a document that lie outside [0,127]
MidiOffences(doc) ==
    LET ps == AllPresets(doc)
    IN  Cardinality({ i \in 1..Len(ps) : ps[i].pgm < 0 \/ ps[i].pgm > 127 })
        + Cardinality({ i \in 1..Len(ps) :
                        ps[i].hasCc0 /\ (ps[i].cc0 < 0 \/ ps[i].cc0 > 127) })

\* the document with every pgm and cc_0 value put into [0,127]
InRange(doc) ==
    [doc EXCEPT !.collections =
        [i \in 1..Len(doc.collections) |->
            [doc.collections[i] EXCEPT !.presets =
                [j \in 1..Len(doc.collections[i].presets) |->
                    [doc.collections[i].presets[j] EXCEPT !.pgm = 0, !.cc0 = 0]]]]]

\* a document the models accept once its MIDI values are in range, with no
\* duplicate identifier, no inconsistent collection and no long name
CleanButMidi(doc) ==
    /\ ModelAccepts(InRange(doc))
    /\ DuplicateIds(doc) = {} /\ Orphans(doc) = {} /\ Unsynced(doc) = {}
    /\ \A i \in 1..Len(AllPresets(doc)) : AllPresets(doc)[i].nameLen <= 50

(***************************************************************************)
(* C13.  A document the models accept in which a preset identifier occurs  *)
(* more than once fails Business-Rules validation with one error entry     *)
(* that names every duplicated identifier, and the collection-consistency  *)
(* check still reports its findings on that document.                      *)
(***************************************************************************)
C13_DuplicatesNamed ==
    (Called("business") /\ Opens(val.target) /\ ModelAccepts(ValDoc)
     /\ DuplicateIds(ValDoc) # {})
    => /\ ~val.ret
       /\ \E i \in EntriesOf("error", "uniqueness") :
              val.errors[i].names = DuplicateIds(ValDoc)
       /\ Cardinality(EntriesOf("error", "uniqueness")) = 1
       /\ Orphans(ValDoc) # {} => EntriesOf("error", "parent") # {}

C13_Witness ==
    /\ Called("business") /\ val.target.doc = "dup2" /\ ~val.ret
    /\ Cardinality(DuplicateIds(ValDoc)) = 2
    /\ EntriesOf("error", "parent") # {}

(***************************************************************************)
(* C14.  A document whose only defect is a pgm or cc_0 value outside       *)
(* [0,127] makes Business-Rules validate() return true, with one warning   *)
(* entry per offending value and no error entry.                           *)
(***************************************************************************)
C14_MidiRangeWarns ==
    (Called("business") /\ Opens(val.target) /\ CleanButMidi(ValDoc)
     /\ MidiOffences(ValDoc) > 0)
    => /\ val.ret
       /\ Cardinality(Warnings) = MidiOffences(ValDoc)
       /\ ~HasErrors(val.errors)

(***************************************************************************)
(* C15.  In a document the models accept, a parent reference that names no *)
(* collection is an error entry and fails the file; a read-only collection *)
(* that is not "synced" is a warning entry and, alone, does not make       *)
(* Business-Rules validate() return false.                                 *)
(***************************************************************************)
C15_ConsistencySeverities ==
    (Called("business") /\ Opens(val.target) /\ ModelAccepts(ValDoc)) =>
        /\ Orphans(ValDoc) # {} => (~val.ret /\ EntriesOf("error", "parent") # {})
        /\ Unsynced(ValDoc) # {} => EntriesOf("warning", "readonly") # {}
        /\ (Unsynced(ValDoc) # {} /\ Orphans(ValDoc) = {} /\ DuplicateIds(ValDoc) = {}
            /\ NamingConventions(ValDoc).ret) => val.ret

(***************************************************************************)
(* C16.  Data-integrity findings never make Business-Rules validate()      *)
(* return false, and every kind of finding present in the file is a        *)
(* warning entry of the validator's list.                                  *)
(***************************************************************************)
C16_IntegrityWarnings ==
    (Called("business") /\ Opens(val.target) /\ ModelAccepts(ValDoc)
     /\ ValDoc.integrity # {})
    => /\ (DuplicateIds(ValDoc) = {} /\ Orphans(ValDoc) = {} /\ Unsynced(ValDoc) = {}
           /\ NamingConventions(ValDoc).ret) => val.ret
       /\ \A k \in ValDoc.integrity :
              \E i \in Warnings : k \in val.errors[i].names

(***************************************************************************)
(* C17.  The Content Validator stops at the first failing stage of         *)
(* (1) existence and size, (2) JSON syntax, (3) required keys: validate()  *)
(* returns false with at least one error entry, all of that stage, and     *)
(* returns true with no entry when every stage passes.                     *)
(***************************************************************************)
C17_ContentStages ==
    Called("content") =>
        LET t == val.target
            stage ==
                IF t.kind = "missing" \/ (t.kind = "file" /\ ValDoc.oversize) THEN "size"
                ELSE IF ~Opens(t) \/ ValDoc.json = "invalid" THEN "json"
                ELSE IF ~({"device_info", "preset_collections"} \subseteq ValDoc.keys)
                THEN "schema"
                ELSE "none"
        IN  /\ val.ret <=> stage = "none"
            /\ stage = "none" => val.errors = << >>
            /\ stage # "none" =>
                  /\ val.errors # << >>
                  /\ \A i \in 1..Len(val.errors) :
                        val.errors[i].severity = "error" /\ val.errors[i].source = stage
            /\ (t.kind = "file" /\ ValDoc.oversize) =>
                  \E i \in 1..Len(val.errors) : "exceeds" \in val.errors[i].names
            /\ stage = "schema" =>
                  \E i \in 1..Len(val.errors) :
                      val.errors[i].names = {"device_info", "preset_collections"} \ ValDoc.keys

C17_Witness ==
    /\ Called("content") /\ val.target.doc = "hugebad" /\ val.target.kind = "file"
    /\ ~val.ret /\ Len(val.errors) = 1 /\ val.errors[1].source = "size"

(***************************************************************************)
(* C18.  The Security Validator returns false iff the file cannot be read  *)
(* or a denylist pattern occurs in its text, case ignored; on a match it   *)
(* records one error entry that names every matched pattern.               *)
(***************************************************************************)
C18_SecurityDenylist ==
    Called("security") =>
        LET matched == { x \in Range(SuspiciousPatterns) :
                         \E o \in ValDoc.patterns : LowerStr(o) = LowerStr(x) }
        IN  /\ val.ret <=> (Opens(val.target) /\ matched = {})
            /\ (Opens(val.target) /\ matched # {}) =>
                  /\ Len(val.errors) = 1
                  /\ val.errors[1].severity = "error"
                  /\ val.errors[1].names = matched

C18_Witness ==
    /\ Called("security") /\ val.target.doc = "SCRIPT" /\ ~val.ret
    /\ val.errors[1].names = {"<script", "setTimeout"}

(***************************************************************************)
(* C19.  For the path of a file the Structure Validator returns true iff   *)
(* the first component is "devices", at most MaxDepth folders lie between  *)
(* it and the file, every such folder name consists only of letters,       *)
(* digits, underscore and hyphen, and the extension is .json; when it      *)
(* returns false the list holds an error entry.                            *)
(***************************************************************************)
C19_Original ==
    (Called("structure") /\ val.target.kind = "file") =>
        LET parts == val.target.parts
            folders == SubSeq(parts, 2, Len(parts) - 1)
        IN  /\ val.ret <=>
                  /\ Len(parts) >= 2 /\ parts[1] = "devices"
                  /\ Len(folders) <= MaxDepth
                  /\ \A i \in 1..Len(folders) :
                        \A j \in 1..Len(Chars(folders[i])) :
                            Chars(folders[i])[j] \in Alnum \cup {"_", "-"}
                  /\ Suffix(Last(parts)) = <<".", "j", "s", "o", "n">>
            /\ ~val.ret => HasErrors(val.errors)

\* C19 amended: a folder name also needs a letter or digit, and the
\* extension is compared with case ignored
C19_FilePathRules ==
    (Called("structure") /\ val.target.kind = "file") =>
        LET parts == val.target.parts
            folders == SubSeq(parts, 2, Len(parts) - 1)
            ext == Suffix(Last(parts))
        IN  /\ val.ret <=>
                  /\ Len(parts) >= 2 /\ parts[1] = "devices"
                  /\ Len(folders) <= MaxDepth
                  /\ \A i \in 1..Len(folders) :
                        /\ \A j \in 1..Len(Chars(folders[i])) :
                              Chars(folders[i])[j] \in Alnum \cup {"_", "-"}
                        /\ \E j \in 1..Len(Chars(folders[i])) :
                              Chars(folders[i])[j] \in Alnum
                  /\ [j \in 1..Len(ext) |-> Lower(ext[j])] = <<".", "j", "s", "o", "n">>
            /\ ~val.ret => HasErrors(val.errors)

C19_Witness ==
    /\ Called("structure") /\ val.target.kind = "file" /\ val.ret
    /\ Len(val.target.parts) = MaxDepth + 2

CliPairs == (1..Len(cli.batch)) \X Validators

RECURSIVE CountOver(_, _)
\* the entries of the given severity that the validators give for the pairs S
CountOver(S, severity) ==
    IF S = {} THEN 0
    ELSE LET x == CHOOSE x \in S : TRUE
             entries == RunValidator(x[2], cli.batch[x[1]]).entries
         IN  Len(SelectSeq(entries, LAMBDA e : e.severity = severity))
             + CountOver(S \ {x}, severity)

\* file i of the batch is accepted by all four validators
FileValid(i) == \A v \in Validators : RunValidator(v, cli.batch[i]).ret

(***************************************************************************)
(* C11.  For a batch the orchestrator calls, file by file, the validators  *)
(* in the order Structure, Content, Security, Business-Rules, each on a    *)
(* cleared list and whatever the earlier ones returned; a file is valid    *)
(* iff all four returned true, the batch result is true iff every file is  *)
(* valid, and the totals are the sums of the validators' error and warning *)
(* counts over all files.                                                  *)
(***************************************************************************)
C11_Orchestration ==
    /\ \A k \in 1..Len(cli.calls) :
          /\ cli.calls[k].file = ((k - 1) \div 4) + 1
          /\ cli.calls[k].validator = ValidatorOrder[((k - 1) % 4) + 1]
          /\ cli.calls[k].cleared
    /\ \A i \in 1..Len(cli.valid) : cli.valid[i] <=> FileValid(i)
    /\ cli.pc \in {"return", "exited"} =>
          /\ Len(cli.calls) = 4 * Len(cli.batch)
          /\ Len(cli.valid) = Len(cli.batch)
          /\ cli.all_valid <=> \A i \in 1..Len(cli.batch) : FileValid(i)
          /\ cli.total_errors = CountOver(CliPairs, "error")
          /\ cli.total_warnings = CountOver(CliPairs, "warning")

C11_Witness ==
    /\ cli.pc = "exited" /\ Len(cli.batch) = 2
    /\ cli.valid = <<FALSE, TRUE>>
    /\ cli.calls[1].ret = FALSE /\ cli.calls[4].ret = FALSE
    /\ cli.total_errors >= 2

(***************************************************************************)
(* C12.  The validate operation exits with 0 iff every file is valid and   *)
(* with 1 otherwise; a batch whose only findings are warnings (MIDI values *)
(* outside [0,127] in otherwise clean files) exits with 1 in strict mode   *)
(* and with 0 without it.                                                  *)
(***************************************************************************)
C12_ExitCodes ==
    cli.pc = "exited" =>
        LET warningsOnly ==
                /\ \A i \in 1..Len(cli.batch) :
                      /\ \A v \in {"structure", "content", "security"} :
                            RunValidator(v, cli.batch[i]).ret
                      /\ CleanButMidi(Doc(cli.batch[i].doc))
                /\ \E i \in 1..Len(cli.batch) : MidiOffences(Doc(cli.batch[i].doc)) > 0
        IN  /\ cli.exit \in {0, 1}
            /\ ~warningsOnly => (cli.exit = 0 <=> \A i \in 1..Len(cli.batch) : cli.valid[i])
            /\ warningsOnly => cli.exit = IF cli.strict_mode THEN 1 ELSE 0

(***************************************************************************)
(* C21.  No call of validate() raises: whatever the path (a missing file,  *)
(* a file that cannot be read, text that is not JSON, JSON whose top level *)
(* is not an object, a document the models reject), each of the four       *)
(* validators returns, and a validator that such an input makes fail       *)
(* returns false with an error entry in its list.                          *)
(***************************************************************************)
C21_NeverRaises ==
    /\ ~val.raised
    /\ (val.called /\ val.cleared) =>
          LET t == val.target
              v == val.validator
              failing ==
                  \/ v = "structure" /\ t.kind \in {"missing", "inaccessible"}
                  \/ v = "content" /\ (~Opens(t) \/ ValDoc.json # "object")
                  \/ v = "security" /\ ~Opens(t)
                  \/ v = "business" /\ (~Opens(t) \/ ~ModelAccepts(ValDoc))
          IN  failing => (~val.ret /\ HasErrors(val.errors))

(***************************************************************************)
(* C26.  For a document that has both required top-level keys and violates *)
(* field constraints of the domain record, the Content Validator returns   *)
(* false and records one schema error per violation.                       *)
(***************************************************************************)
C26_SchemaViolations ==
    (/\ Called("content")
     /\ Opens(val.target) /\ ~ValDoc.oversize /\ ValDoc.json = "object"
     /\ {"device_info", "preset_collections"} \subseteq ValDoc.keys
     /\ ValDoc.fieldViolations > 0)
    => /\ ~val.ret
       /\ Cardinality(EntriesOf("error", "schema")) >= ValDoc.fieldViolations

(***************************************************************************)
(* C27.  After a call of validate() has returned, the validator's list     *)
(* holds exactly the entries of that call, also when the same validator    *)
(* was called on another path before, and has_errors() is the negation of  *)
(* the value the call returned.                                            *)
(***************************************************************************)
C27_ListOfThisCall ==
    val.called =>
        /\ val.errors = RunValidator(val.validator, val.target).entries
        /\ HasErrors(val.errors) <=> ~val.ret

(***************************************************************************)
(* C28.  The Structure Validator's result and entries depend on the path   *)
(* string only: whatever the file system holds at the path (a file, a      *)
(* directory, nothing), the same path gives the same outcome.              *)
(***************************************************************************)
C28_PathStringOnly ==
    Called("structure") =>
        \A t \in Targets :
            t.parts = val.target.parts
            => StructureValidate(t) = Outcome(val.ret, val.errors)

(***************************************************************************)
(* C22.  verify_file_hash never raises, and it returns true iff the file   *)
(* can be read and its freshly computed digest equals the expected digest; *)
(* for a file that is missing or cannot be read and for an expected digest *)
(* that is not a string it returns false.                                  *)
(***************************************************************************)
C22_VerifyFileHash ==
    chk.called =>
        /\ chk.out.ok
        /\ chk.out.v <=> /\ CanRead(chk.path)
                         /\ chk.expected = StrVal(CalculateFileHash(chk.path).v)

(***************************************************************************)
(* Helpers of the claims about the generate operation                      *)
(***************************************************************************)
\* generate_manifest has returned the manifest
Returned == run.pc = "Done" \/ (run.pc = "exited" /\ run.exit = 0)

StepRank(x) == CHOOSE i \in 1..Len(StepOrder) : StepOrder[i] = x

RECURSIVE SumOf(_)
\* the sum of the values of a histogram
SumOf(f) ==
    IF DOMAIN f = {} THEN 0
    ELSE LET k == CHOOSE k \in DOMAIN f : TRUE
         IN  f[k] + SumOf([x \in DOMAIN f \ {k} |-> f[x]])

\* the steps taken so far follow the order of StepOrder, the loop step being
\* taken once per file, and the folder checksums come after every file has
\* its record
StepsInOrder ==
    LET st == run.steps
    IN  /\ st # << >> => st[1] = "Start"
        /\ \A i \in 1..(Len(st) - 1) :
              \/ StepRank(st[i + 1]) = StepRank(st[i]) + 1
              \/ st[i] = "AnalyzeEachFile" /\ st[i + 1] = "AnalyzeEachFile"
              \/ /\ run.files = << >>
                 /\ st[i] = "EnumerateFiles" /\ st[i + 1] = "ComputeFolderChecksums"
        /\ (\E i \in 1..Len(st) : st[i] = "ComputeFolderChecksums") =>
              /\ Len(SelectSeq(st, LAMBDA x : x = "AnalyzeEachFile")) = Len(run.files)
              /\ Range(run.files) \subseteq DOMAIN run.manifest.file_checksums

(***************************************************************************)
(* C23.  The generate operation leaves the manifest file as it was until   *)
(* generate_manifest has returned, then writes the complete manifest in    *)
(* one step and exits with 0; when generation raises, the manifest file of *)
(* the earlier run is unchanged and the exit code is 1.                    *)
(***************************************************************************)
C23_WrittenOnce ==
    /\ run.pc \notin {"idle", "exited"} => manifestFile = run.before
    /\ run.pc = "exited" =>
          IF GenerateManifest.ok
          THEN run.exit = 0 /\ manifestFile = StoredManifest(GenerateManifest.v)
          ELSE run.exit = 1 /\ manifestFile = run.before

C23_Witness ==
    /\ run.pc = "exited" /\ run.exit = 1
    /\ run.before = OldManifest /\ manifestFile = OldManifest
    /\ run.manifest.file_checksums # << >>

(***************************************************************************)
(* C24.  Manifest generation, the extra-file scan of verification and the  *)
(* folder hash of the artifact root enumerate the same files, x_manifest   *)
(* .json included or excluded alike, and generation visits them in sorted  *)
(* relative-path order.                                                    *)
(***************************************************************************)
C24_SameEnumeration ==
    run.pc \notin {"idle", "Start"} =>
        /\ Range(run.files) = ExtraFiles(<< >>)
        /\ Range(run.files) = Range(FolderJsonFiles(Root))
        /\ run.files = Sorted(run.files)

(***************************************************************************)
(* C25.  Every generation run takes the steps Start, EnumerateFiles,       *)
(* AnalyzeEachFile, ComputeFolderChecksums, ComputeRepositoryChecksum,     *)
(* Done in this order, analyses every file before the folder checksums,    *)
(* and, once started, eventually reaches Done.                             *)
(***************************************************************************)
C25_RunReachesDone ==
    /\ []StepsInOrder
    /\ (run.pc = "Start") ~> (run.pc = "Done")

(***************************************************************************)
(* C29.  In a returned manifest the record of every file, total_devices,   *)
(* total_presets and validation_summary are determined by the analysis of  *)
(* the files alone; a file whose manufacturer cannot be extracted is only  *)
(* missing from devices_by_manufacturer.                                   *)
(***************************************************************************)
C29_ManufacturerIsolated ==
    Returned =>
        LET m == run.manifest
            fc == m.file_checksums
            passed == { p \in DOMAIN fc : fc[p].validation_status = "passed" }
            failed == { p \in DOMAIN fc : fc[p].validation_status = "failed" }
            counted == { p \in DOMAIN fc : fc[p].versionHashable /\ ManufacturerOf(p).ok }
        IN  /\ \A p \in Range(run.files) : p \in DOMAIN fc /\ fc[p] = AnalyzeFile(p)
            /\ m.total_devices = Cardinality(passed)
            /\ m.total_presets = PresetsOver(passed)
            /\ m.statistics.validation_summary.passed = Cardinality(passed)
            /\ m.statistics.validation_summary.failed = Cardinality(failed)
            /\ SumOf(m.statistics.devices_by_manufacturer) = Cardinality(counted)

C29_Witness ==
    /\ Returned
    /\ \E p, q \in DOMAIN tree :
          /\ tree[p] = [doc |-> "devlist", readable |-> TRUE]
          /\ tree[q] = [doc |-> "good3", readable |-> TRUE]
          /\ run.manifest.file_checksums[p].validation_status = "passed"
    /\ run.manifest.total_devices = 2
    /\ run.manifest.total_presets = 4
    /\ run.manifest.statistics.devices_by_manufacturer = ("Korg" :> 1)

(***************************************************************************)
(* C30.  In a returned manifest validation_summary.passed + failed is the  *)
(* number of records of file_checksums, pending is 0, the values of        *)
(* schema_version_distribution sum to that number, and the values of       *)
(* devices_by_manufacturer sum to at most that number.                     *)
(***************************************************************************)
C30_HistogramSums ==
    Returned =>
        LET st == run.manifest.statistics
            n  == Cardinality(DOMAIN run.manifest.file_checksums)
        IN  /\ st.validation_summary.passed + st.validation_summary.failed = n
            /\ st.validation_summary.pending = 0
            /\ SumOf(st.schema_version_distribution) = n
            /\ SumOf(st.devices_by_manufacturer) <= n

====
